---------------------------- MODULE Spec2Model ----------------------------
(***************************************************************************)
(* Model of the chart-data retrieval layer of birthday-number-ones         *)
(* (src/services/Scraper.js) and of the route that calls it (src/app.js).  *)
(*                                                                         *)
(* Strings are TLA+ strings; a JavaScript template literal is \o.  A JS    *)
(* Date is a record [valid, t] where t counts days since 1970-01-01 (the   *)
(* time of day plays no part in the code modelled here: the dates that     *)
(* cacheNumberOnes builds are local midnights and `now` is at or after     *)
(* midnight of its day).                                                   *)
(***************************************************************************)
EXTENDS Integers, Sequences, FiniteSets, TLC

VARIABLES
    now,             \* new Date(): the wall clock, fixed for one behaviour
    numberOnesData,  \* Scraper.js:8, the cache parsed once at module load
    file,            \* the content of ./data/number-ones.json
    one,             \* a getNumberOne call made on its own
    yearly,          \* a getYearlyNumberOnes call
    route,           \* what app.get('/:date?') handed to res.render
    backfill,        \* a cacheNumberOnes run
    pool,            \* a PromisePool run over a long date list, by counts
    fetched,         \* history: the date that the getNumberOne call before
                     \* the one in `one` fetched from the remote source, if
                     \* it did and returned
    seen,            \* history: the key of the call in `one`, if
                     \* ./data/number-ones.json held it when the call was made
    called           \* a call of getNumberOneRemote, toSentenceCase or
                     \* parseDate made on its own: its argument and outcome

vars == <<now, numberOnesData, file, one, yearly, route, backfill, pool, fetched,
          seen, called>>

-----------------------------------------------------------------------------
(* Bounds of the model.                                                    *)

\* longest date list a modelled cacheNumberOnes run enumerates in detail
MaxDates == 3
\* how many dates beyond the pool's concurrency the counted pool run queues
MaxExtraDates == 2

\* the longest generated text handed to toSentenceCase
MaxTextLen == 3

-----------------------------------------------------------------------------
(* Text helpers.                                                           *)

DigitChars == <<"0", "1", "2", "3", "4", "5", "6", "7", "8", "9">>

\* `${n}` for a non-negative integer n
RECURSIVE NumStr(_)
NumStr(n) == IF n < 10 THEN DigitChars[n + 1]
             ELSE NumStr(n \div 10) \o DigitChars[(n % 10) + 1]

IsDigit(c) == \E i \in 1..10 : DigitChars[i] = c

DigitVal(c) == CHOOSE i \in 0..9 : DigitChars[i + 1] = c

IsDigits(s) == Len(s) > 0 /\ \A i \in 1..Len(s) : IsDigit(SubSeq(s, i, i))

\* value of a string of decimal digits
RECURSIVE DigitsVal(_)
DigitsVal(s) == IF Len(s) = 0 THEN 0
                ELSE 10 * DigitsVal(SubSeq(s, 1, Len(s) - 1))
                     + DigitVal(SubSeq(s, Len(s), Len(s)))

\* s.slice(-2)
SliceLast2(s) == IF Len(s) <= 2 THEN s ELSE SubSeq(s, Len(s) - 1, Len(s))

\* s.slice(from, to) with 0 <= from <= to (JavaScript's half-open range)
Slice(s, from, to) ==
    LET hi == IF to > Len(s) THEN Len(s) ELSE to
    IN  IF from >= hi THEN "" ELSE SubSeq(s, from + 1, hi)

\* `0${v}`.slice(-2)
Pad2(v) == SliceLast2("0" \o v)

\* parseInt(s, 10) of the texts the route passes on: the longest prefix of
\* digits, NaN (the empty tuple) when there is none
RECURSIVE DigitPrefix(_)
DigitPrefix(s) == IF Len(s) = 0 \/ ~IsDigit(SubSeq(s, 1, 1)) THEN ""
                  ELSE SubSeq(s, 1, 1) \o DigitPrefix(SubSeq(s, 2, Len(s)))

NaN == <<>>

ParseInt(s) == IF DigitPrefix(s) = "" THEN NaN ELSE <<DigitsVal(DigitPrefix(s))>>

\* Number(s), the conversion the Date constructor applies to its arguments:
\* digits, or a sign and digits; anything else is NaN
ToNumber(s) ==
    IF s = "" THEN <<0>>
    ELSE IF IsDigits(s) THEN <<DigitsVal(s)>>
    ELSE IF Len(s) > 1 /\ SubSeq(s, 1, 1) = "-" /\ IsDigits(SubSeq(s, 2, Len(s)))
         THEN <<0 - DigitsVal(SubSeq(s, 2, Len(s)))>>
    ELSE NaN

-----------------------------------------------------------------------------
(* The calendar behind JavaScript's Date.                                  *)

IsLeap(y) == (y % 4 = 0 /\ y % 100 # 0) \/ y % 400 = 0

DaysInYear(y) == IF IsLeap(y) THEN 366 ELSE 365

\* m0 is a month index, 0 (January) .. 11 (December)
DaysInMonth(y, m0) ==
    IF m0 = 1 THEN (IF IsLeap(y) THEN 29 ELSE 28)
    ELSE IF m0 \in {3, 5, 8, 10} THEN 30 ELSE 31

\* ECMAScript's DayFromYear: the day number of 1 January of year y >= 1970
DaysBeforeYear(y) ==
    365 * (y - 1970) + ((y - 1969) \div 4) - ((y - 1901) \div 100) + ((y - 1601) \div 400)

RECURSIVE DaysBeforeMonth(_, _)
DaysBeforeMonth(y, m0) ==
    IF m0 = 0 THEN 0 ELSE DaysBeforeMonth(y, m0 - 1) + DaysInMonth(y, m0 - 1)

InvalidDate == [valid |-> FALSE, t |-> 0]

\* new Date(year, monthIndex, day) of numbers: a month index past 11 carries
\* into the year and a day past the month's end carries into the next month
MakeDate(y, m0, d) ==
    LET yy == y + (m0 \div 12)
        mm == m0 % 12
    IN  [valid |-> TRUE, t |-> DaysBeforeYear(yy) + DaysBeforeMonth(yy, mm) + d - 1]

\* new Date(a, b, c) of strings: each is converted with Number()
NewDate(a, b, c) ==
    IF ToNumber(a) = NaN \/ ToNumber(b) = NaN \/ ToNumber(c) = NaN
    THEN InvalidDate
    ELSE MakeDate(ToNumber(a)[1], ToNumber(b)[1], ToNumber(c)[1])

\* ECMAScript's YearFromTime: the last year y, from guess on, that starts at
\* or before day t
RECURSIVE YearOfDay(_, _)
YearOfDay(t, y) == IF DaysBeforeYear(y + 1) > t THEN y ELSE YearOfDay(t, y + 1)

RECURSIVE MonthOfDay(_, _, _)
MonthOfDay(r, y, m0) ==
    IF r < DaysInMonth(y, m0) THEN m0 ELSE MonthOfDay(r - DaysInMonth(y, m0), y, m0 + 1)

getFullYear(d) == YearOfDay(d.t, 1970 + (d.t \div 366))

getMonth(d) == MonthOfDay(d.t - DaysBeforeYear(getFullYear(d)), getFullYear(d), 0)

getDate(d) ==
    d.t - DaysBeforeYear(getFullYear(d)) - DaysBeforeMonth(getFullYear(d), getMonth(d)) + 1

\* d <= now of two Dates: false when either is an Invalid Date
DateLeq(d, n) == d.valid /\ n.valid /\ d.t <= n.t

\* d.setDate(d.getDate() + 1)
NextDay(d) == [d EXCEPT !.t = d.t + 1]

-----------------------------------------------------------------------------
(* Chart entries, the remote fetch and the cache lookup.                   *)

\* the value of a missing property (undefined), in the shape of an entry
Undefined == [date |-> "", year |-> "", month |-> "", day |-> ""]

\* the outcomes of the GET and of parsing its page: the entry is returned, or
\* the call throws (network failure, non-200 status, a page without the
\* expected elements)
Responses == {"ok", "throw"}

\* the object getNumberOneRemote returns for texts year, month, day.  The
\* chart week, track, artist and cover come from the page and are not
\* modelled in this entry.
RemoteEntry(year, month, day) ==
    [date |-> year \o "-" \o month \o "-" \o day,
     year |-> year, month |-> month, day |-> day]

getNumberOneLocalAlwaysMiss(year, month, day) == Undefined

getNumberOneLocalFromFile(year, month, day) ==
    LET k == year \o "-" \o month \o "-" \o day
    IN  IF k \in DOMAIN file THEN file[k] ELSE Undefined

\* numberOnesData[`${year}-${month}-${day}`]
getNumberOneLocal(year, month, day) ==
    LET k == year \o "-" \o month \o "-" \o day
    IN  IF k \in DOMAIN numberOnesData THEN numberOnesData[k] ELSE Undefined

getNumberOneUnpadded(year, month, day) ==
    IF getNumberOneLocal(year, month, day) # Undefined
    THEN [st |-> "returned", args |-> <<year, month, day>>,
          year |-> year, month |-> month, day |-> day,
          remote |-> 0, response |-> "", data |-> getNumberOneLocal(year, month, day)]
    ELSE [st |-> "pending", args |-> <<year, month, day>>,
          year |-> year, month |-> month, day |-> day,
          remote |-> 1, response |-> "", data |-> Undefined]

\* getNumberOne up to its first await: the texts are padded, the cache is
\* asked, and only a miss starts the remote fetch.  The record is the state of
\* the call: the arguments it was given (args), those it handed on, the
\* number of getNumberOneRemote calls it made, and its value once it has
\* returned; response is how its remote fetch ended, "" while there is none.
getNumberOne(year, month, day) ==
    LET m == Pad2(month)
        d == Pad2(day)
        data == getNumberOneLocal(year, m, d)
    IN  IF data # Undefined
        THEN [st |-> "returned", args |-> <<year, month, day>>,
              year |-> year, month |-> m, day |-> d,
              remote |-> 0, response |-> "", data |-> data]
        ELSE [st |-> "pending", args |-> <<year, month, day>>,
              year |-> year, month |-> m, day |-> d,
              remote |-> 1, response |-> "", data |-> Undefined]

SettleSwallowing(call, response) ==
    IF response = "ok"
    THEN [call EXCEPT !.st = "returned", !.response = response,
                      !.data = RemoteEntry(call.year, call.month, call.day)]
    ELSE [call EXCEPT !.st = "returned", !.response = response]

\* the await of getNumberOneRemote ends: the call returns the fetched entry
\* as it is, or the exception of the fetch leaves getNumberOne; response
\* records how the fetch ended
Settle(call, response) ==
    IF response = "ok"
    THEN [call EXCEPT !.st = "returned", !.response = response,
                      !.data = RemoteEntry(call.year, call.month, call.day)]
    ELSE [call EXCEPT !.st = "threw", !.response = response]

NoCall == [st |-> "idle", args |-> <<"", "", "">>, year |-> "", month |-> "", day |-> "",
           remote |-> 0, response |-> "", data |-> Undefined]

-----------------------------------------------------------------------------
(* The page of a chart week and what getNumberOneRemote reads from it.     *)

Lower == "abcdefghijklmnopqrstuvwxyz"
Upper == "ABCDEFGHIJKLMNOPQRSTUVWXYZ"

\* String.prototype.indexOf of one character, counted from 1; 0 if absent
IndexOf(c, s) ==
    LET found == {i \in 1..Len(s) : SubSeq(s, i, i) = c}
    IN  IF found = {} THEN 0
        ELSE CHOOSE i \in found : \A j \in found : i <= j

RECURSIVE toUpperCase(_)
toUpperCase(s) ==
    IF s = "" THEN ""
    ELSE LET c == SubSeq(s, 1, 1)
             i == IndexOf(c, Lower)
         IN  (IF i = 0 THEN c ELSE SubSeq(Upper, i, i))
                \o toUpperCase(SubSeq(s, 2, Len(s)))

RECURSIVE toLowerCase(_)
toLowerCase(s) ==
    IF s = "" THEN ""
    ELSE LET c == SubSeq(s, 1, 1)
             i == IndexOf(c, Upper)
         IN  (IF i = 0 THEN c ELSE SubSeq(Lower, i, i))
                \o toLowerCase(SubSeq(s, 2, Len(s)))

\* String.prototype.split on a separator of one character
RECURSIVE split(_, _)
split(s, sep) ==
    LET i == IndexOf(sep, s)
    IN  IF i = 0 THEN <<s>>
        ELSE <<SubSeq(s, 1, i - 1)>> \o split(SubSeq(s, i + 1, Len(s)), sep)

\* String.prototype.trim; the space is the only white space of the texts
RECURSIVE trim(_)
trim(s) ==
    IF s = "" THEN ""
    ELSE IF SubSeq(s, 1, 1) = " " THEN trim(SubSeq(s, 2, Len(s)))
    ELSE IF SubSeq(s, Len(s), Len(s)) = " " THEN trim(SubSeq(s, 1, Len(s) - 1))
    ELSE s

\* Array.prototype.join
RECURSIVE join(_, _)
join(parts, sep) ==
    IF Len(parts) = 0 THEN ""
    ELSE IF Len(parts) = 1 THEN parts[1]
    ELSE parts[1] \o sep \o join(Tail(parts), sep)

months == <<"January", "February", "March", "April", "May", "June", "July",
            "August", "September", "October", "November", "December">>

\* `${split[2]}-${months.indexOf(split[1]) + 1}-${split[0]}`: an element
\* past the end of split is undefined, which indexOf does not find and the
\* template literal prints as "undefined"
parseDate(date) ==
    LET parts == split(date, " ")
        piece(i) == IF i <= Len(parts) THEN trim(parts[i]) ELSE "undefined"
        found == {i \in 1..Len(months) : Len(parts) >= 2 /\ months[i] = piece(2)}
        indexOf == IF found = {} THEN -1 ELSE (CHOOSE i \in found : TRUE) - 1
    IN  piece(3) \o "-" \o NumStr(indexOf + 1) \o "-" \o piece(1)

\* a value handed to toSentenceCase: null, or a string
Null == <<>>
JsString(s) == <<s>>

\* the body of the try block of toSentenceCase: null has no split, and the
\* s[0] of an empty piece is undefined and has no toUpperCase
SentenceCased(val) ==
    IF val = Null THEN [st |-> "threw", value |-> ""]
    ELSE LET parts == split(val[1], " ")
         IN  IF \E i \in 1..Len(parts) : parts[i] = ""
             THEN [st |-> "threw", value |-> ""]
             ELSE [st |-> "returned",
                   value |-> join([i \in 1..Len(parts) |->
                                     toUpperCase(SubSeq(parts[i], 1, 1))
                                        \o toLowerCase(SubSeq(parts[i], 2, Len(parts[i])))],
                                  " ")]

toSentenceCaseUnguarded(val) == SentenceCased(val)

\* try { ... } catch (e) { return ''; }
toSentenceCase(val) ==
    IF SentenceCased(val).st = "threw"
    THEN [st |-> "returned", value |-> ""]
    ELSE SentenceCased(val)

\* the object getNumberOneRemote returns: the fields of RemoteEntry and
\* those read from the page
PageEntry(year, month, day, page, chartDate) ==
    [date |-> RemoteEntry(year, month, day).date,
     actualChartStartDate |-> parseDate(trim(chartDate[1])),
     actualChartEndDate |-> parseDate(trim(chartDate[2])),
     track |-> toSentenceCase(JsString(trim(page.track))).value,
     artist |-> toSentenceCase(JsString(trim(page.artist))).value,
     cover |-> page.cover,
     year |-> year, month |-> month, day |-> day]

getNumberOneRemoteStrict(year, month, day, page) ==
    LET chartDate == split(trim(page.articleDate), "-")
    IN  IF \/ page.status # "ok"
           \/ Len(chartDate) < 2
           \/ trim(page.track) = ""
           \/ trim(page.artist) = ""
        THEN [st |-> "threw", data |-> Undefined]
        ELSE [st |-> "returned", data |-> PageEntry(year, month, day, page, chartDate)]

\* getNumberOneRemote on the page that axios.get brought: a page is
\* [status, articleDate, track, artist, cover], the texts being what the
\* selectors' .text() and .attr('src') give ("" for an element that is not
\* there).  The request may fail; chartDate[1] is undefined when the text
\* of .article-date has no hyphen, and its .trim() throws; an exception of
\* toSentenceCase would leave the function as well.  The lookups above
\* take only the outcome of this function, "ok" for returned and "throw"
\* for threw.
getNumberOneRemote(year, month, day, page) ==
    LET chartDate == split(trim(page.articleDate), "-")
    IN  IF \/ page.status # "ok"
           \/ Len(chartDate) < 2
           \/ toSentenceCase(JsString(trim(page.track))).st = "threw"
           \/ toSentenceCase(JsString(trim(page.artist))).st = "threw"
        THEN [st |-> "threw", data |-> Undefined]
        ELSE [st |-> "returned", data |-> PageEntry(year, month, day, page, chartDate)]

NoCalled == [fn |-> "", arg |-> <<>>, st |-> "idle", value |-> <<>>]

-----------------------------------------------------------------------------
(* Inputs of the calls made on their own.                                  *)

\* the text of .article-date: absent, without a hyphen, a chart week, a
\* chart week with a misspelt month, a lone hyphen
ArticleDates == {"", "26 July 2020", "26 July 2020 - 1 August 2020",
                 " 26 July 2020 - 01 Augst 2020 ", "-"}

\* the texts of the title and the artist of the first row
Titles == {"", "WATERMELON SUGAR", " Rain  On Me "}
Artists == {"", "HARRY STYLES"}

Pages ==
    {[status |-> "error", articleDate |-> "", track |-> "", artist |-> "", cover |-> ""]}
    \cup {[status |-> "ok", articleDate |-> a, track |-> t, artist |-> r,
           cover |-> "https://img.example/cover.jpg"] :
             a \in ArticleDates, t \in Titles, r \in Artists}

\* the padded texts getNumberOne and cacheNumberOnes hand to the fetch
RemoteArgs == {<<"2020", "08", "01">>, <<"2024", "02", "09">>}

\* the strings of up to n characters over a lower-case letter, an upper-case
\* letter and the space
Alphabet == {"a", "B", " "}

RECURSIVE Texts(_)
Texts(n) ==
    IF n = 0 THEN {""}
    ELSE Texts(n - 1) \cup {t \o c : t \in Texts(n - 1), c \in Alphabet}

CaseInputs ==
    {Null} \cup {JsString(t) : t \in Texts(MaxTextLen)
                                  \cup {"STUART ASHWORTH", "harry styles", "1 wAY"}}

\* long dates with a month name of the list and with month tokens that are
\* not: misspelt, lower-case, upper-case, abbreviated, a number
DateTexts == {"1 August 2020", "26 July 2020", "31 December 1999", "1 January 2000",
              "1 Augst 2020", "1 august 2020", "01 AUGUST 2020", "1 Aug 2020",
              "1 8 2020"}

-----------------------------------------------------------------------------
(* Inputs of the lookups.                                                  *)

\* the (year, month, day) texts the callers pass: months and days single or
\* zero-padded; with the clocks below, ranges of three, two, one and no year
Queries == {<<"2022", "2", "9">>, <<"2023", "02", "09">>, <<"2023", "3", "09">>,
            <<"2024", "02", "9">>, <<"2025", "2", "9">>}

\* the clock: 2 March 2024, 30 March 2024 and 1 January 2025 (month indices
\* 2, 2 and 0)
NowChoices == {MakeDate(2024, 2, 2), MakeDate(2024, 2, 30), MakeDate(2025, 0, 1)}

\* the dates an earlier run may have left in ./data/number-ones.json
StoredChoices == {{},
                  {<<"2023", "02", "09">>, <<"2024", "02", "09">>, <<"2024", "02", "01">>}}

StoreOf(dates) ==
    [k \in {RemoteEntry(x[1], x[2], x[3]).date : x \in dates} |->
        LET x == CHOOSE x \in dates : RemoteEntry(x[1], x[2], x[3]).date = k
        IN  RemoteEntry(x[1], x[2], x[3])]

\* lookups of dates that the runs below fetch: 1 February 2024, which the
\* stored file may hold already, and 29 February 2024
RunQueries == {<<"2024", "2", "1">>, <<"2024", "02", "29">>}

-----------------------------------------------------------------------------
(* getNumberOne called on its own.                                         *)

GetNumberOne(year, month, day) ==
    /\ one.st # "pending"
    /\ one' = getNumberOne(year, month, day)
    /\ fetched' = IF one.st = "returned" /\ one.remote = 1 THEN {one.data.date} ELSE {}
    /\ seen' = DOMAIN file \cap {RemoteEntry(year, Pad2(month), Pad2(day)).date}
    /\ UNCHANGED <<now, numberOnesData, file, yearly, route, backfill, pool, called>>

GetNumberOneSettleSaving(response) ==
    /\ one.st = "pending"
    /\ one' = Settle(one, response)
    /\ numberOnesData' =
          IF response = "ok"
          THEN [k \in DOMAIN numberOnesData \cup {one'.data.date} |->
                   IF k = one'.data.date THEN one'.data ELSE numberOnesData[k]]
          ELSE numberOnesData
    /\ UNCHANGED <<now, file, yearly, route, backfill, pool, fetched, seen, called>>

GetNumberOneSettle(response) ==
    /\ one.st = "pending"
    /\ one' = Settle(one, response)
    /\ UNCHANGED <<now, numberOnesData, file, yearly, route, backfill, pool, fetched, seen, called>>

-----------------------------------------------------------------------------
(* getYearlyNumberOnes and the route that calls it.                        *)

\* `${v}` of a parseInt result
Str(v) == IF v = NaN THEN "NaN" ELSE NumStr(v[1])

\* a > b of a parseInt result and a number: false when a is NaN
Gt(a, b) == a # NaN /\ a[1] > b

CurrentYearOfTheClock(month, n) == getFullYear(n)

CurrentYearByCalendarMonth(month, n) ==
    IF Gt(month, getMonth(n) + 1) THEN getFullYear(n) - 1 ELSE getFullYear(n)

\* currentYear after the test of lines 124-126: month is the parsed query
\* month, compared with the month index of the clock
CurrentYear(month, n) ==
    IF Gt(month, getMonth(n)) THEN getFullYear(n) - 1 ELSE getFullYear(n)

\* the array the while loop of lines 129-133 builds
Years(year, currentYear) ==
    IF year = NaN \/ year[1] > currentYear THEN <<>>
    ELSE [i \in 1..(currentYear - year[1] + 1) |-> year[1] + i - 1]

PromiseAllOmitFailed(slots, order) ==
    IF \A i \in 1..Len(slots) : slots[i].st # "pending"
    THEN [st |-> "resolved",
          value |-> LET ok == SelectSeq([i \in 1..Len(slots) |-> slots[i]],
                                        LAMBDA c : c.st = "returned")
                    IN  [i \in 1..Len(ok) |-> ok[i].data]]
    ELSE [st |-> "pending", value |-> <<>>]

PromiseAllByCompletion(slots, order) ==
    IF \E i \in 1..Len(slots) : slots[i].st = "threw"
    THEN [st |-> "rejected", value |-> <<>>]
    ELSE IF \A i \in 1..Len(slots) : slots[i].st = "returned"
    THEN [st |-> "resolved", value |-> [i \in 1..Len(slots) |-> slots[order[i]].data]]
    ELSE [st |-> "pending", value |-> <<>>]

\* Promise.all over the calls of line 136: rejected as soon as one call has
\* thrown, resolved with the values by index once all have returned.  order
\* lists the indices in the order the calls completed.
PromiseAll(slots, order) ==
    IF \E i \in 1..Len(slots) : slots[i].st = "threw"
    THEN [st |-> "rejected", value |-> <<>>]
    ELSE IF \A i \in 1..Len(slots) : slots[i].st = "returned"
    THEN [st |-> "resolved", value |-> [i \in 1..Len(slots) |-> slots[i].data]]
    ELSE [st |-> "pending", value |-> <<>>]

\* indices of the calls that have completed at call time (the cache hits)
RECURSIVE Completed(_, _)
Completed(slots, i) ==
    IF i > Len(slots) THEN <<>>
    ELSE (IF slots[i].st = "pending" THEN <<>> ELSE <<i>>) \o Completed(slots, i + 1)

\* app.get('/:date?'): the result is rendered, an exception of
\* getYearlyNumberOnes renders the empty list
Render(p) ==
    IF p.st = "resolved" THEN [rendered |-> TRUE, data |-> p.value]
    ELSE IF p.st = "rejected" THEN [rendered |-> TRUE, data |-> <<>>]
    ELSE [rendered |-> FALSE, data |-> <<>>]

NoYearly == [st |-> "idle", year |-> "", month |-> "", day |-> "",
             years |-> <<>>, slots |-> <<>>, order |-> <<>>, value |-> <<>>]

GetYearlyNumberOnes(year, month, day) ==
    LET y == ParseInt(year)
        m == ParseInt(month)
        d == ParseInt(day)
        years == Years(y, CurrentYear(m, now))
        slots == [i \in 1..Len(years) |-> getNumberOne(NumStr(years[i]), Str(m), Str(d))]
        order == Completed(slots, 1)
        all == PromiseAll(slots, order)
    IN  /\ yearly.st # "pending"
        /\ \A i \in 1..Len(yearly.slots) : yearly.slots[i].st # "pending"
        /\ yearly' = [st |-> all.st, year |-> year, month |-> month, day |-> day,
                      years |-> years, slots |-> slots, order |-> order,
                      value |-> all.value]
        /\ route' = Render(all)
        /\ UNCHANGED <<now, numberOnesData, file, one, backfill, pool, fetched, seen, called>>

\* one of the remote fetches of a getYearlyNumberOnes call ends.  After a
\* rejection the other fetches still end, and change nothing.
YearlySettle(i, response) ==
    /\ i \in 1..Len(yearly.slots)
    /\ yearly.slots[i].st = "pending"
    /\ LET slots == [yearly.slots EXCEPT ![i] = Settle(@, response)]
           order == Append(yearly.order, i)
           all == PromiseAll(slots, order)
       IN  /\ yearly' = [yearly EXCEPT !.slots = slots, !.order = order,
                                       !.st = all.st, !.value = all.value]
           /\ route' = IF yearly.st = "pending" THEN Render(all) ELSE route
    /\ UNCHANGED <<now, numberOnesData, file, one, backfill, pool, fetched, seen, called>>

-----------------------------------------------------------------------------
(* cacheNumberOnes.                                                        *)

\* .withConcurrency(100)
Concurrency == 100

hasReachedConcurrencyLimitOffByOne(active) == active > Concurrency

\* the pool's test before it hands the next item to the handler
hasReachedConcurrencyLimit(active) == active >= Concurrency

\* how many of the queued items the pool's loop starts before it has to wait
\* for a task to finish (or runs out of items)
StartCountWhenIdle(queued, active) ==
    IF active > 0 THEN 0
    ELSE IF queued < Concurrency THEN queued ELSE Concurrency

RECURSIVE StartCount(_, _)
StartCount(queued, active) ==
    IF queued = 0 \/ hasReachedConcurrencyLimit(active) THEN 0
    ELSE 1 + StartCount(queued - 1, active + 1)

\* the texts the callers pass as the start date
StartTexts == {"20240128", "20240129", "20240130", "20240229", "2024-03-01",
               "20241130", "20241231"}

\* new Date(date.slice(0, 4), date.slice(4, 6), date.slice(6, 8))
StartOf(date) == NewDate(Slice(date, 0, 4), Slice(date, 4, 6), Slice(date, 6, 8))

\* number of turns of the loop of lines 150-156
DateCount(date, n) ==
    IF DateLeq(StartOf(date), n) THEN n.t - StartOf(date).t + 1 ELSE 0

\* the object pushed at lines 151-155
DateItem(d) == [year |-> getFullYear(d),
                month |-> Pad2(NumStr(getMonth(d))),
                day |-> Pad2(NumStr(getDate(d)))]

\* the loop of lines 150-156 from d on
RECURSIVE DatesFrom(_, _)
DatesFrom(d, n) ==
    IF ~DateLeq(d, n) THEN <<>> ELSE <<DateItem(d)>> \o DatesFrom(NextDay(d), n)

Dates(date, n) == DatesFrom(StartOf(date), n)

ItemEntryCompactDate(item) ==
    [RemoteEntry(NumStr(item.year), item.month, item.day) EXCEPT
        !.date = NumStr(item.year) \o item.month \o item.day]

\* getNumberOneRemote(d.year, d.month, d.day) when it returns
ItemEntry(item) == RemoteEntry(NumStr(item.year), item.month, item.day)

SaveDataMerged(results) ==
    LET keys == {results[i].date : i \in 1..Len(results)}
    IN  [k \in keys \cup DOMAIN file |->
            IF k \in keys
            THEN results[CHOOSE i \in 1..Len(results) :
                            /\ results[i].date = k
                            /\ \A j \in 1..Len(results) : results[j].date = k => j <= i]
            ELSE file[k]]

\* saveData of lines 166-169: an object that starts empty and gets every
\* result under its date, a later result replacing an earlier one
SaveData(results) ==
    LET keys == {results[i].date : i \in 1..Len(results)}
    IN  [k \in keys |->
            results[CHOOSE i \in 1..Len(results) :
                       /\ results[i].date = k
                       /\ \A j \in 1..Len(results) : results[j].date = k => j <= i]]

NoBackfill == [st |-> "idle", date |-> "", dates |-> <<>>, started |-> 0,
               tasks |-> {}, results |-> <<>>, errors |-> {}, before |-> <<>>,
               value |-> <<>>, writes |-> 0]

\* the pool after a change: the loop starts what it may; once every item is
\* started and no task is left, the run writes the file and returns (writes
\* counts the writeFileSync calls of the run)
Advance(b) ==
    LET k == StartCount(Len(b.dates) - b.started, Cardinality(b.tasks))
        tasks == b.tasks \cup ((b.started + 1)..(b.started + k))
        drained == tasks = {}
    IN  [b EXCEPT !.started = b.started + k,
                  !.tasks = tasks,
                  !.st = IF drained THEN "done" ELSE "running",
                  !.value = IF drained THEN b.results ELSE <<>>,
                  !.writes = IF drained THEN @ + 1 ELSE @]

CacheNumberOnes(date) ==
    /\ backfill.st # "running"
    /\ DateCount(date, now) <= MaxDates
    /\ backfill' = Advance([NoBackfill EXCEPT !.st = "running", !.date = date,
                                              !.dates = Dates(date, now),
                                              !.before = file])
    /\ file' = IF backfill'.st = "done" THEN SaveData(backfill'.results) ELSE file
    /\ UNCHANGED <<now, numberOnesData, one, yearly, route, pool, fetched, seen, called>>

BackfillSettleAbort(i, response) ==
    /\ backfill.st = "running"
    /\ i \in backfill.tasks
    /\ backfill' =
          IF response = "ok"
          THEN Advance([backfill EXCEPT
                  !.tasks = @ \ {i},
                  !.results = Append(@, ItemEntry(backfill.dates[i]))])
          ELSE [backfill EXCEPT !.tasks = {}, !.errors = @ \cup {i},
                                !.st = "done", !.value = backfill.results,
                                !.writes = @ + 1]
    /\ file' = IF backfill'.st = "done" THEN SaveData(backfill'.results) ELSE file
    /\ UNCHANGED <<now, numberOnesData, one, yearly, route, pool, fetched, seen, called>>

BackfillSettleWritingEach(i, response) ==
    /\ backfill.st = "running"
    /\ i \in backfill.tasks
    /\ backfill' = Advance([backfill EXCEPT
            !.tasks = @ \ {i},
            !.results = IF response = "ok"
                        THEN Append(@, ItemEntry(backfill.dates[i])) ELSE @,
            !.errors = IF response = "ok" THEN @ ELSE @ \cup {i},
            !.writes = IF response = "ok" THEN @ + 1 ELSE @])
    /\ file' = SaveData(backfill'.results)
    /\ UNCHANGED <<now, numberOnesData, one, yearly, route, pool, fetched, seen, called>>

\* the fetch of item i of a run ends: its entry joins the results, or its
\* exception joins the pool's errors
BackfillSettle(i, response) ==
    /\ backfill.st = "running"
    /\ i \in backfill.tasks
    /\ backfill' = Advance([backfill EXCEPT
            !.tasks = @ \ {i},
            !.results = IF response = "ok"
                        THEN Append(@, ItemEntry(backfill.dates[i])) ELSE @,
            !.errors = IF response = "ok" THEN @ ELSE @ \cup {i}])
    /\ file' = IF backfill'.st = "done" THEN SaveData(backfill'.results) ELSE file
    /\ UNCHANGED <<now, numberOnesData, one, yearly, route, pool, fetched, seen, called>>

-----------------------------------------------------------------------------
(* The pool of cacheNumberOnes over a date list longer than its            *)
(* concurrency, with the tasks counted instead of named.                   *)

NoPool == [st |-> "idle", total |-> 0, started |-> 0, active |-> 0, settled |-> 0]

PoolAdvance(p) ==
    LET k == StartCount(p.total - p.started, p.active)
    IN  [p EXCEPT !.started = p.started + k,
                  !.active = p.active + k,
                  !.st = IF p.active + k = 0 THEN "done" ELSE "running"]

\* .for(dates).process(...) over n dates
PoolProcess(n) ==
    /\ pool.st = "idle"
    /\ pool' = PoolAdvance([NoPool EXCEPT !.st = "running", !.total = n])
    /\ UNCHANGED <<now, numberOnesData, file, one, yearly, route, backfill, fetched, seen, called>>

\* one of the fetches in flight ends, with an entry or an exception
PoolSettle ==
    /\ pool.st = "running"
    /\ pool.active > 0
    /\ pool' = PoolAdvance([pool EXCEPT !.active = @ - 1, !.settled = @ + 1])
    /\ UNCHANGED <<now, numberOnesData, file, one, yearly, route, backfill, fetched, seen, called>>

-----------------------------------------------------------------------------
(* getNumberOneRemote, toSentenceCase and parseDate called on their own.   *)

GetNumberOneRemote(year, month, day, page) ==
    /\ LET r == getNumberOneRemote(year, month, day, page)
       IN  called' = [fn |-> "getNumberOneRemote", arg |-> <<year, month, day, page>>,
                      st |-> r.st, value |-> r.data]
    /\ UNCHANGED <<now, numberOnesData, file, one, yearly, route, backfill, pool,
                   fetched, seen>>

ToSentenceCase(val) ==
    /\ LET r == toSentenceCase(val)
       IN  called' = [fn |-> "toSentenceCase", arg |-> val,
                      st |-> r.st, value |-> r.value]
    /\ UNCHANGED <<now, numberOnesData, file, one, yearly, route, backfill, pool,
                   fetched, seen>>

\* parseDate of a string has no statement that throws
ParseDate(date) ==
    /\ called' = [fn |-> "parseDate", arg |-> date, st |-> "returned",
                  value |-> parseDate(date)]
    /\ UNCHANGED <<now, numberOnesData, file, one, yearly, route, backfill, pool,
                   fetched, seen>>

-----------------------------------------------------------------------------
(* The specifications.                                                     *)

Init ==
    /\ now \in NowChoices
    /\ \E stored \in StoredChoices :
          /\ file = StoreOf(stored)
          /\ numberOnesData = StoreOf(stored)
    /\ one = NoCall
    /\ yearly = NoYearly
    /\ route = [rendered |-> FALSE, data |-> <<>>]
    /\ backfill = NoBackfill
    /\ pool = NoPool
    /\ fetched = {}
    /\ seen = {}
    /\ called = NoCalled

\* the lookups: getNumberOne on its own and under getYearlyNumberOnes
Next ==
    \/ \E q \in Queries : GetNumberOne(q[1], q[2], q[3])
    \/ \E r \in Responses : GetNumberOneSettle(r)
    \/ \E q \in Queries : GetYearlyNumberOnes(q[1], q[2], q[3])
    \/ \E i \in 1..Len(yearly.slots), r \in Responses : YearlySettle(i, r)

Spec == Init /\ [][Next]_vars

\* the backfill runs, one after another
NextBackfill ==
    \/ \E date \in StartTexts : CacheNumberOnes(date)
    \/ \E i \in backfill.tasks, r \in Responses : BackfillSettle(i, r)

SpecBackfill == Init /\ [][NextBackfill]_vars

\* a backfill run over more dates than the pool's concurrency
NextPool ==
    \/ \E n \in (Concurrency - 1)..(Concurrency + MaxExtraDates) : PoolProcess(n)
    \/ PoolSettle

SpecPool == Init /\ [][NextPool]_vars

\* the same, with every fetch in flight settling in the end: a request of
\* axios.get either gets its response or fails
SpecPoolFair == SpecPool /\ WF_vars(PoolSettle)

\* one process: backfill runs and, before, during and after them, lookups
\* of dates the runs fetch
NextProcess ==
    \/ \E date \in StartTexts : CacheNumberOnes(date)
    \/ \E i \in backfill.tasks, r \in Responses : BackfillSettle(i, r)
    \/ \E q \in RunQueries : GetNumberOne(q[1], q[2], q[3])
    \/ \E r \in Responses : GetNumberOneSettle(r)

SpecProcess == Init /\ [][NextProcess]_vars

\* the fetch of one page and the two text functions, on their own
NextRemote ==
    \/ \E a \in RemoteArgs, page \in Pages : GetNumberOneRemote(a[1], a[2], a[3], page)
    \/ \E val \in CaseInputs : ToSentenceCase(val)
    \/ \E date \in DateTexts : ParseDate(date)

SpecRemote == Init /\ [][NextRemote]_vars

-----------------------------------------------------------------------------
(* Vocabulary of the properties.                                           *)

\* n in 0..99 as two digits
Two(n) == DigitChars[(n \div 10) + 1] \o DigitChars[(n % 10) + 1]

\* the zero-padded ISO composite YYYY-MM-DD of a year, a month and a day
IsoOf(y, m, d) == NumStr(y) \o "-" \o Two(m) \o "-" \o Two(d)

\* the composite of the (year, month, day) texts a lookup was given
KeyOf(args) == IsoOf(DigitsVal(args[1]), DigitsVal(args[2]), DigitsVal(args[3]))

\* the getNumberOne calls made so far: the one made on its own and those of
\* the getYearlyNumberOnes call
Lookups == (IF one.st = "idle" THEN {} ELSE {one})
           \cup {yearly.slots[i] : i \in 1..Len(yearly.slots)}

Cached(k) == k \in DOMAIN numberOnesData

-----------------------------------------------------------------------------
(* C1: a lookup of a date whose zero-padded key is in the loaded cache     *)
(* has returned the cached entry and has made no call of                   *)
(* getNumberOneRemote, however many lookups are made.                      *)
C1_CacheHitNoRemote ==
    \A c \in Lookups :
        Cached(KeyOf(c.args)) =>
            /\ c.remote = 0
            /\ c.st = "returned"
            /\ c.data = numberOnesData[KeyOf(c.args)]

\* two lookups of one cached date (one on its own with a single-digit day,
\* one under the yearly lookup), neither with a remote call
C1_Witness ==
    /\ one.st = "returned" /\ one.remote = 0
    /\ Cached(KeyOf(one.args))
    /\ Len(one.args[3]) = 1
    /\ \E i \in 1..Len(yearly.slots) :
          /\ KeyOf(yearly.slots[i].args) = KeyOf(one.args)
          /\ yearly.slots[i].remote = 0

(* C5 as stated: when the lookups of some years fail, getYearlyNumberOnes  *)
(* still returns the entries of the years that succeeded.                  *)
C5_OmitsFailedYears ==
    ((\A i \in 1..Len(yearly.slots) : yearly.slots[i].st # "pending")
        /\ (\E i \in 1..Len(yearly.slots) : yearly.slots[i].st = "threw"))
    => /\ yearly.st = "resolved"
       /\ \A i \in 1..Len(yearly.slots) :
             yearly.slots[i].st = "returned" =>
                \E j \in 1..Len(yearly.value) : yearly.value[j] = yearly.slots[i].data

(* C5 amended: when the lookup of any year fails, getYearlyNumberOnes      *)
(* fails as a whole, whatever the other years did, and the route renders   *)
(* the empty list; it returns a sequence, one entry per year of the range, *)
(* only when every year's lookup succeeded.                                *)
C5_FailsAsAWhole ==
    /\ (\E i \in 1..Len(yearly.slots) : yearly.slots[i].st = "threw")
          => /\ yearly.st = "rejected"
             /\ yearly.value = <<>>
             /\ route = [rendered |-> TRUE, data |-> <<>>]
    /\ yearly.st = "resolved"
          => /\ Len(yearly.value) = Len(yearly.years)
             /\ \A i \in 1..Len(yearly.slots) : yearly.slots[i].st = "returned"

\* one year failed, every other year of a range of three succeeded
C5_Witness ==
    /\ Len(yearly.slots) = 3
    /\ yearly.st = "rejected"
    /\ Cardinality({i \in 1..3 : yearly.slots[i].st = "returned"}) = 2
    /\ route.rendered

(* C6: the i-th entry getYearlyNumberOnes returns (counting from 0) is     *)
(* the entry of year birthYear + i, in whatever order the lookups          *)
(* completed.                                                              *)
C6_AscendingYears ==
    yearly.st = "resolved" =>
        \A i \in 1..Len(yearly.value) :
            yearly.value[i].date =
                IsoOf(DigitsVal(yearly.year) + i - 1,
                      DigitsVal(yearly.month), DigitsVal(yearly.day))

\* a resolved call whose lookups completed out of year order
C6_Witness ==
    /\ yearly.st = "resolved"
    /\ Len(yearly.value) = 3
    /\ \E i, j \in 1..3 : i < j /\ yearly.order[i] > yearly.order[j]

C9_DateIsPaddedComposite ==
    \A c \in Lookups : c.st = "returned" => c.data.date = KeyOf(c.args)

\* a remote result for a single-digit month and day, beside a cached result
C9_Witness ==
    /\ one.st = "returned" /\ one.remote = 1
    /\ Len(one.args[2]) = 1 /\ Len(one.args[3]) = 1
    /\ \E i \in 1..Len(yearly.slots) :
          yearly.slots[i].st = "returned" /\ yearly.slots[i].remote = 0

(* C10: no lookup changes the cache in memory or the file, and every       *)
(* lookup of a date that is not in the cache calls getNumberOneRemote,     *)
(* also when an earlier lookup has fetched that date already.              *)
C10_LookupsPersistNothing ==
    /\ [](\A c \in Lookups : ~Cached(KeyOf(c.args)) => c.remote = 1)
    /\ [][numberOnesData' = numberOnesData /\ file' = file]_vars

\* a lookup fetches the date that the lookup before it fetched and returned
C10_Witness ==
    /\ one.st = "pending" /\ one.remote = 1
    /\ KeyOf(one.args) \in fetched

-----------------------------------------------------------------------------
(* Properties of cacheNumberOnes.                                          *)

\* the dates a run has handed to getNumberOneRemote, in the order it did
Handed == SubSeq(backfill.dates, 1, backfill.started)

\* the key of item i of the run's date list
ItemKey(i) == NumStr(backfill.dates[i].year) \o "-" \o backfill.dates[i].month
              \o "-" \o backfill.dates[i].day

\* the items whose fetch did not fail
Succeeded == {i \in 1..Len(backfill.dates) : i \notin backfill.errors}

C3_FailuresAreOmitted ==
    /\ backfill.st = "running" => backfill.tasks # {}
    /\ backfill.st = "done" =>
          /\ backfill.started = Len(backfill.dates) /\ backfill.tasks = {}
          /\ Len(backfill.value) = Cardinality(Succeeded)
          /\ {backfill.value[j].date : j \in 1..Len(backfill.value)}
                = {ItemKey(i) : i \in Succeeded}
          /\ \A i \in backfill.errors :
                /\ ItemKey(i) \notin DOMAIN file
                /\ \A j \in 1..Len(backfill.value) : backfill.value[j].date # ItemKey(i)

\* a run over three dates whose second fetch failed: two entries returned
C3_Witness ==
    /\ backfill.st = "done"
    /\ Len(backfill.dates) = 3
    /\ backfill.errors = {2}
    /\ Len(backfill.value) = 2
    /\ Cardinality(DOMAIN file) = 2

(* C4: in a run over any number of dates, more than 100 included, at most  *)
(* 100 fetches are in flight in every reachable state.                     *)
C4_AtMost100InFlight ==
    /\ pool.active <= 100
    /\ pool.active = pool.started - pool.settled

\* 100 fetches in flight while a date of a longer list waits for a slot
C4_Witness ==
    /\ pool.st = "running"
    /\ pool.total > 100
    /\ pool.active = 100
    /\ pool.started < pool.total
    /\ pool.settled > 0

\* the calendar date a start text names: YYYYMMDD, or YYYY-MM-DD as the
\* comment of cacheNumberOnes has it
NamedStart(date) ==
    IF Len(date) = 8
    THEN MakeDate(DigitsVal(Slice(date, 0, 4)), DigitsVal(Slice(date, 4, 6)) - 1,
                  DigitsVal(Slice(date, 6, 8)))
    ELSE MakeDate(DigitsVal(Slice(date, 0, 4)), DigitsVal(Slice(date, 5, 7)) - 1,
                  DigitsVal(Slice(date, 8, 10)))

\* calendar day t as a (year, month, day) triple, the month counted from 1
CalendarItem(t) ==
    LET d == [valid |-> TRUE, t |-> t]
    IN  [year |-> getFullYear(d), month |-> Two(getMonth(d) + 1), day |-> Two(getDate(d))]

(* C8 as stated: for a start date not after today, the triples a run has   *)
(* handed to getNumberOneRemote once all are started are the calendar      *)
(* dates from the start date to today, both included, each once and in     *)
(* increasing order.                                                       *)
C8_EveryDateFromStartToToday ==
    (backfill.st # "idle" /\ backfill.started = Len(backfill.dates)
        /\ NamedStart(backfill.date).t <= now.t)
    => Handed = [i \in 1..(now.t - NamedStart(backfill.date).t + 1) |->
                    CalendarItem(NamedStart(backfill.date).t + i - 1)]

(* C11: a lookup fails exactly when its key is absent from the cache and   *)
(* its remote fetch failed; a failed lookup hands no entry to its caller,  *)
(* and a lookup of a cached key never fails.                               *)
C11_FailsOnlyOnMissAndFetchFailure ==
    \A c \in Lookups :
        /\ c.st = "threw" <=> (~Cached(KeyOf(c.args)) /\ c.response = "throw")
        /\ c.st = "threw" => c.data = Undefined
        /\ Cached(KeyOf(c.args)) => c.st = "returned" /\ c.response = ""

\* a lookup of an uncached key whose fetch failed, under a yearly lookup
\* beside a lookup of a cached key that returned
C11_Witness ==
    /\ one.st = "threw" /\ ~Cached(KeyOf(one.args))
    /\ \E i, j \in 1..Len(yearly.slots) :
          /\ yearly.slots[i].st = "threw"
          /\ yearly.slots[j].st = "returned" /\ Cached(KeyOf(yearly.slots[j].args))

\* the page a getNumberOneRemote call made on its own was given
PageOf(c) == c.arg[4]

\* the text of .article-date is not there or has no hyphen
LacksDateRange(page) == \A i \in 1..Len(page.articleDate) :
                            SubSeq(page.articleDate, i, i) # "-"

\* the text has no character other than spaces
IsBlank(t) == \A i \in 1..Len(t) : SubSeq(t, i, i) = " "

(* C12 as stated: getNumberOneRemote fails, and returns no entry, whenever *)
(* the page it was served lacks the chart-week date range (or its hyphen), *)
(* the title of the top track, or the name of its artist.                  *)
C12_FailsOnAnyMissingElement ==
    (/\ called.fn = "getNumberOneRemote"
     /\ \/ LacksDateRange(PageOf(called))
        \/ IsBlank(PageOf(called).track)
        \/ IsBlank(PageOf(called).artist))
        => called.st = "threw" /\ called.value = Undefined

(* C12, amended: getNumberOneRemote fails exactly when the request fails   *)
(* or the chart-week date range is missing or has no hyphen; a page that   *)
(* has the date range but no title or no artist name yields an entry whose *)
(* track or artist is the empty string.                                    *)
C12_FailsOnlyOnMissingDateRange ==
    called.fn = "getNumberOneRemote" =>
        /\ called.st = "threw" <=>
              (PageOf(called).status # "ok" \/ LacksDateRange(PageOf(called)))
        /\ called.st = "threw" => called.value = Undefined
        /\ called.st = "returned" =>
              /\ IsBlank(PageOf(called).track) => called.value.track = ""
              /\ IsBlank(PageOf(called).artist) => called.value.artist = ""
              /\ called.value.date =
                    called.arg[1] \o "-" \o called.arg[2] \o "-" \o called.arg[3]

\* a page with a chart week but neither title nor artist gave an entry
C12_Witness ==
    /\ called.fn = "getNumberOneRemote"
    /\ called.st = "returned"
    /\ PageOf(called).track = "" /\ PageOf(called).artist = ""
    /\ called.value.track = "" /\ called.value.artist = ""
    /\ called.value.actualChartEndDate = "2020-8-1"

\* the twelve full English month names
MonthNames == {months[i] : i \in 1..Len(months)}

\* the second token of a text "D Month YYYY"
MonthToken(date) == split(date, " ")[2]

(* C13: parseDate fails with an error, and returns no date string, for     *)
(* every input "D Month YYYY" whose month token is not one of the twelve   *)
(* full English month names, case-sensitively.                             *)
C13_UnknownMonthFails ==
    (/\ called.fn = "parseDate"
     /\ Len(split(called.arg, " ")) = 3
     /\ MonthToken(called.arg) \notin MonthNames)
        => called.st = "threw"

(* C14: every key of ./data/number-ones.json maps to an entry whose date   *)
(* is that key, and the date is the composite year-month-day of the        *)
(* entry's own year, month and day fields; this holds after any sequence   *)
(* of cacheNumberOnes runs, and a finished run left its results under      *)
(* their dates and nothing else.                                           *)
C14_KeyIsDateOfItsEntry ==
    /\ \A k \in DOMAIN file :
          /\ file[k].date = k
          /\ file[k].date = file[k].year \o "-" \o file[k].month \o "-" \o file[k].day
    /\ backfill.st = "done" =>
          DOMAIN file = {backfill.value[i].date : i \in 1..Len(backfill.value)}

\* a second or later run has written two entries or more
C14_Witness ==
    /\ backfill.st = "done"
    /\ Cardinality(DOMAIN file) >= 2
    /\ backfill.before # numberOnesData
    /\ DOMAIN backfill.before # DOMAIN file

(* C15: in the date list that cacheNumberOnes enumerates, the date after   *)
(* 29 February of a leap year is 1 March of that year, and the date after  *)
(* 31 December is 1 January of the year that follows.                      *)
C15_MonthAndYearEndsRollOver ==
    \A i \in 1..(Len(backfill.dates) - 1) :
        LET a == backfill.dates[i]
            b == backfill.dates[i + 1]
        IN  /\ (IsLeap(a.year) /\ a.month = "02" /\ a.day = "29") =>
                  b = [year |-> a.year, month |-> "03", day |-> "01"]
            /\ (a.month = "12" /\ a.day = "31") =>
                  b = [year |-> a.year + 1, month |-> "01", day |-> "01"]

\* a text whose split on spaces has a piece of no character: it is empty,
\* begins or ends with a space, or has two spaces in a row
HasEmptyToken(t) ==
    \/ t = ""
    \/ SubSeq(t, 1, 1) = " "
    \/ SubSeq(t, Len(t), Len(t)) = " "
    \/ \E i \in 1..(Len(t) - 1) : SubSeq(t, i, i + 1) = "  "

\* the first n characters of t, each upper-cased if it begins a word and
\* lower-cased otherwise
RECURSIVE WordsCapitalised(_, _)
WordsCapitalised(t, n) ==
    IF n = 0 THEN ""
    ELSE WordsCapitalised(t, n - 1)
            \o (IF n = 1 \/ SubSeq(t, n - 1, n - 1) = " "
                THEN toUpperCase(SubSeq(t, n, n))
                ELSE toLowerCase(SubSeq(t, n, n)))

(* C16: toSentenceCase never throws: it returns the empty string for null, *)
(* for the empty string and for a text with a zero-length token (leading,  *)
(* trailing or consecutive spaces), and otherwise the text with the first  *)
(* character of each space-separated word upper-cased and the rest of the  *)
(* word lower-cased, single spaces between the words.                      *)
C16_SentenceCaseOrEmpty ==
    called.fn = "toSentenceCase" =>
        /\ called.st = "returned"
        /\ called.value =
              IF called.arg = Null THEN ""
              ELSE IF HasEmptyToken(called.arg[1]) THEN ""
              ELSE WordsCapitalised(called.arg[1], Len(called.arg[1]))

\* a call on a text of two words, one begun by a digit and one in mixed case
C16_Witness ==
    /\ called.fn = "toSentenceCase"
    /\ called.arg = JsString("1 wAY")
    /\ called.value = "1 Way"

(* C17 as stated: once a cacheNumberOnes run has written the file, every   *)
(* later getNumberOne call of the same process for a date the run fetched  *)
(* is answered from the cache, with no remote fetch.                       *)
C17_LookupAfterCommitIsAHit ==
    (one.st # "idle" /\ KeyOf(one.args) \in seen) => one.remote = 0

(* C17, amended: a cacheNumberOnes run does not replace the cache: it      *)
(* stays the file as read when the module was loaded.  A getNumberOne call *)
(* for a date that a run wrote to the file is a cache hit only if the date *)
(* was in the file at load; otherwise it fetches the date again.           *)
C17_CacheStaysTheFileAtLoad ==
    /\ [](one.st # "idle" =>
            /\ KeyOf(one.args) \in seen \ DOMAIN numberOnesData => one.remote = 1
            /\ KeyOf(one.args) \in DOMAIN numberOnesData =>
                  one.remote = 0 /\ one.data = numberOnesData[KeyOf(one.args)])
    /\ [][numberOnesData' = numberOnesData]_vars

\* after a run wrote a date that was not in the file at load, a lookup of
\* that date fetched it again
C17_Witness ==
    /\ backfill.st = "done"
    /\ one.st = "returned" /\ one.remote = 1
    /\ KeyOf(one.args) \in seen
    /\ KeyOf(one.args) \in DOMAIN file
    /\ KeyOf(one.args) \notin DOMAIN numberOnesData

(* C18: a cacheNumberOnes run writes ./data/number-ones.json exactly once, *)
(* and only after every fetch of the run has settled: while a fetch of the *)
(* run is in flight the file is as it was when the run began, and a run    *)
(* that has returned wrote once, all of its results, with nothing left to  *)
(* start or to settle.                                                     *)
C18_OneWriteAfterEveryFetch ==
    /\ backfill.st = "running" =>
          /\ backfill.tasks # {}
          /\ backfill.writes = 0
          /\ file = backfill.before
    /\ backfill.st = "done" =>
          /\ backfill.writes = 1
          /\ backfill.tasks = {}
          /\ backfill.started = Len(backfill.dates)
          /\ Len(backfill.results) + Cardinality(backfill.errors) = Len(backfill.dates)
          /\ file = SaveData(backfill.results)

\* a run is in flight with a result already in hand, a fetch still pending
\* and a file that holds other dates than that result
C18_Witness ==
    /\ backfill.st = "running"
    /\ Len(backfill.results) >= 1
    /\ backfill.tasks # {}
    /\ DOMAIN file # {}
    /\ backfill.results[1].date \notin DOMAIN file

\* the calendar day (year, month 1-12, day) as days since 1970-01-01
DayOf(year, month, day) == MakeDate(year, month - 1, day).t

(* C19: getYearlyNumberOnes never makes a getNumberOne call for a date     *)
(* later than the clock's date: when the query's month and day of the      *)
(* clock's year lie after the clock's date, the clock's year is not among  *)
(* the years looked up.                                                    *)
C19_NoLookupOfAFutureDate ==
    yearly.st # "idle" =>
        /\ \A i \in 1..Len(yearly.slots) :
              DayOf(DigitsVal(yearly.slots[i].args[1]),
                    DigitsVal(yearly.slots[i].args[2]),
                    DigitsVal(yearly.slots[i].args[3])) <= now.t
        /\ DayOf(getFullYear(now), DigitsVal(yearly.month), DigitsVal(yearly.day)) > now.t
              => \A i \in 1..Len(yearly.slots) :
                    DigitsVal(yearly.slots[i].args[1]) < getFullYear(now)

\* the query day of the clock's year is still to come, and the lookups
\* made end with the year before
C19_Witness ==
    /\ yearly.st # "idle"
    /\ DayOf(getFullYear(now), DigitsVal(yearly.month), DigitsVal(yearly.day)) > now.t
    /\ DayOf(getFullYear(now), DigitsVal(yearly.month), DigitsVal(yearly.day)) < now.t + 31
    /\ Len(yearly.slots) >= 1
    /\ DigitsVal(yearly.slots[Len(yearly.slots)].args[1]) = getFullYear(now) - 1

(* C20: provided every fetch that was started settles in the end, a       *)
(* cacheNumberOnes run over a finite date list completes.  The pool starts *)
(* a fetch for each date once: it never holds back a queued date while     *)
(* fewer than 100 fetches are in flight, and the run is over, all dates    *)
(* started and settled, exactly when the queue is empty and no fetch is in *)
(* flight.                                                                 *)
C20_RunCompletes ==
    /\ [](pool.st = "running" =>
            /\ pool.started = pool.active + pool.settled
            /\ pool.started <= pool.total
            /\ pool.active > 0
            /\ pool.started < pool.total => pool.active = Concurrency)
    /\ [](pool.st = "done" =>
            /\ pool.started = pool.total
            /\ pool.settled = pool.total
            /\ pool.active = 0)
    /\ (pool.st = "running") ~> (pool.st = "done")

\* a run over more dates than the pool's concurrency has completed
C20_Witness ==
    /\ pool.st = "done"
    /\ pool.total > Concurrency
    /\ pool.settled = pool.total

=============================================================================
